---- MODULE Spec2Model ----
(***************************************************************************)
(* Video loader (readiness gate) of the hero video: the module-level state *)
(* of the loader, the browser's timer queue and the events the Vimeo       *)
(* player and the document deliver to it.                                  *)
(*                                                                         *)
(* Time is in milliseconds.  Timers are urgent: a callback runs at its     *)
(* deadline, time does not advance past a due callback, and callbacks that *)
(* are due at the same instant run in any order.  Every action is one      *)
(* callback of the single UI thread, run to completion.                    *)
(***************************************************************************)
EXTENDS Integers, Sequences, FiniteSets, TLC

\* ---------------------------------------------------------------- bounds
\* Latest time the model follows.
MaxTime == 12000
\* Granularity of the passage of time between callbacks.
Step == 1000
\* Player events (play, bufferend, timeupdate, error) delivered in one page view.
MaxEvents == 2
\* Longest time the document stays in readyState 'loading' that is followed.
MaxDomDelay == 1000
\* Granularity of time while the minimum display time has not elapsed, in the
\* fine-grained specification of the loader.
FineStep == 200
\* visibilitychange events delivered in one page view.
MaxVisibilityChanges == 2
\* Events delivered to the mobile menu in one page view.
MaxMenuEvents == 4
\* Pricing tabs of the page at most.
MaxTabs == 3
\* Elements of the page that carry a data-content attribute at most.
MaxDataContent == 2
\* Clicks, key presses and focus changes on the pricing tabs in one page view.
MaxTabEvents == 4
\* Longest text of a number counter that is followed (characters).
MaxTextLen == 3
\* Times the counter crosses the observer's threshold in one page view.
MaxIntersections == 3
\* Scroll events delivered in one page view.
MaxScrollEvents == 5

\* ------------------------------------------------------- program constants
FALLBACK_TIMEOUT == 5000
MIN_DISPLAY_TIME == 1500
FORCED_REVEAL_DELAY == 3000
SETTLE_DELAY == 5500
\* data.seconds > 0.5, in milliseconds
TIMEUPDATE_THRESHOLD == 500
\* null of videoLoadStartTime; null of fallbackTimer (timer ids are positive)
NoTime == -1
NoTimer == 0
\* window.innerWidth > 1023: the widest window that keeps the mobile menu open
MOBILE_MAX_WIDTH == 1023

\* Playback positions a timeupdate event reports (ms).
TimeupdateSeconds == {0, 500, 600}
\* Values of CONFIG.MIN_DISPLAY_TIME a deployment may set.
MinDisplayValues == {1500, 3000, 4000}
\* Values of window.innerWidth (px): a phone, the breakpoint, the first width above it.
Widths == {375, MOBILE_MAX_WIDTH, MOBILE_MAX_WIDTH + 1}
\* window.innerWidth - document.documentElement.clientWidth (px) when the menu opens.
ScrollbarWidths == {0, 15}
\* currentScroll > 50: the header gets its shadow beyond this offset (px)
SCROLLED_OFFSET == 50
\* const scrollThreshold = 100
scrollThreshold == 100
\* Values of window.pageYOffset (px): the top, each threshold and the first
\* offset beyond it, and one far down the page.
ScrollPositions == {0, SCROLLED_OFFSET, SCROLLED_OFFSET + 1, scrollThreshold,
                    scrollThreshold + 1, 300}
\* const duration = 2000 (ms)
COUNTER_DURATION == 2000
\* setInterval(..., 16) and duration / 16 (ms)
FRAME_INTERVAL == 16
\* parseInt() of a string without digits
NaN == -1
\* Characters of a counter's text: white space, digits, a sign, a letter.
TextChars == {" ", "2", "0", "+", "k"}
\* e.key of the keydown events on a pricing tab that are followed.
TabKeys == {"ArrowRight", "ArrowLeft", "Enter"}
\* e.key of the keydown events followed.
Keys == {"Escape", "Enter"}

VARIABLES
  config,              \* CONFIG
  player,              \* "null" or "player"
  videoLoadStartTime,  \* NoTime or the Date.now() of initVimeoPlayer
  isVideoReady,
  fallbackTimer,       \* NoTimer or the id setTimeout returned
  pc,                  \* "boot", "bypassed", "loading", "started"
  containerPresent,    \* .hero__video-container is in the document
  containerClass,      \* classList of .hero__video-container
  readyPromise,        \* "none", "pending", "resolved", "rejected"
  playerListeners,     \* events the player has a listener for
  docListeners,        \* document events that have a listener
  timers,              \* the armed setTimeout callbacks, in arming order
  nextTimerId,
  now,
  eventCount,          \* player events delivered so far
  revealCount,         \* executions of brightenAndFadeOut
  settleCount,         \* executions of its delayed callback
  firstRevealAt,       \* time of the first reveal, or NoTime
  clearCount,          \* times clearFallbackTimeout released a handle
  waitingErrorAt,      \* time of the first error event received while waiting
  lateForcedRuns,      \* forced-reveal callbacks run that a late error event armed
  prefersReducedMotion, \* matchMedia('(prefers-reduced-motion: reduce)').matches
  guardHits,           \* handleVideoReady calls that returned at its guard
  hidden,              \* document.hidden
  lastVisibilityCall,  \* what the last handleVisibilityChange called on the player
  visibilityChanges,   \* visibilitychange events so far
  menuElements,        \* #mobileToggle and #nav are in the document
  menuListeners,       \* listeners the navigation script has registered
  navActive,           \* #nav has class 'active'
  toggleActive,        \* #mobileToggle has class 'active'
  ariaExpanded,        \* aria-expanded of #mobileToggle
  overlays,            \* number of #menu-overlay elements
  bodyOverflow,        \* document.body.style.overflow
  bodyPaddingRight,    \* document.body.style.paddingRight in px, 0 for ''
  innerWidth,          \* window.innerWidth
  preOpen,             \* the page as the last opening of the menu found it
  menuEvents,          \* menu events so far
  headerPresent,       \* #header is in the document
  headerListener,      \* initHeaderScroll registered its scroll listener
  headerClass,         \* classList of #header
  lastScroll,          \* let lastScroll of initHeaderScroll
  pageYOffset,         \* window.pageYOffset
  scrollEvents,        \* scroll events so far
  tabCount,            \* number of .pricing__tab elements; tab i has data-tab i
  dataContent,         \* the elements with a data-content attribute, in document order
  tabActive,           \* tabs that carry 'pricing__tab--active'
  contentActive,       \* elements of dataContent that carry 'pricing__content--active'
  pricingInitDone,     \* initPricingTabs has run
  pricingListeners,    \* initPricingTabs registered its listeners
  focusedTab,          \* the tab that has the focus, 0 if none has
  lastClicked,         \* the tab of the last click, 0 before the first
  rightRun,            \* ArrowRight presses in a row so far
  rightRunStart,       \* the tab focused when that row started, 0 if none
  tabEvents,           \* events on the pricing tabs so far
  originalText,        \* textContent of the .trainer__stat-number element as served
  counterText,         \* its textContent
  counted,             \* it carries 'counted'
  isIntersecting,      \* it is beyond the observer's threshold
  observing,           \* initNumberCounters observes it
  intervals,           \* the running setInterval callbacks of animateCounter
  intervalsStarted,    \* setInterval calls of animateCounter so far
  intersections        \* callbacks of the observer so far

vars == <<config, player, videoLoadStartTime, isVideoReady, fallbackTimer, pc,
          containerPresent, containerClass, readyPromise, playerListeners,
          docListeners, timers, nextTimerId, now, eventCount, revealCount,
          settleCount, firstRevealAt, clearCount, waitingErrorAt, lateForcedRuns,
          prefersReducedMotion, guardHits, hidden, lastVisibilityCall,
          visibilityChanges, menuElements, menuListeners, navActive, toggleActive,
          ariaExpanded, overlays, bodyOverflow, bodyPaddingRight, innerWidth,
          preOpen, menuEvents, headerPresent, headerListener, headerClass,
          lastScroll, pageYOffset, scrollEvents, tabCount, dataContent,
          tabActive, contentActive, pricingInitDone, pricingListeners,
          focusedTab, lastClicked, rightRun, rightRunStart, tabEvents,
          originalText, counterText, counted, isIntersecting, observing,
          intervals, intervalsStarted, intersections>>

\* The state of the page's visibility handling.
visibilityVars == <<hidden, lastVisibilityCall, visibilityChanges>>

\* The state of the mobile menu.
menuVars == <<menuElements, menuListeners, navActive, toggleActive, ariaExpanded,
              overlays, bodyOverflow, bodyPaddingRight, innerWidth, preOpen,
              menuEvents>>

\* The state of the header's scroll behaviour.
headerVars == <<headerPresent, headerListener, headerClass, lastScroll,
                pageYOffset, scrollEvents>>

\* The state of the pricing tabs.
pricingVars == <<tabCount, dataContent, tabActive, contentActive, pricingInitDone,
                 pricingListeners, focusedTab, lastClicked, rightRun, rightRunStart,
                 tabEvents>>

\* The state of a number counter.
counterVars == <<originalText, counterText, counted, isIntersecting, observing,
                 intervals, intervalsStarted, intersections>>

\* The state of the page's other components.
widgetVars == <<headerVars, pricingVars, counterVars>>

\* What the video loader's own steps never touch.
pageVars == <<visibilityVars, menuVars, widgetVars>>

\* The state of the video loader.
loaderVars == <<config, player, videoLoadStartTime, isVideoReady, fallbackTimer, pc,
                containerPresent, containerClass, readyPromise, playerListeners,
                docListeners, timers, nextTimerId, now, eventCount, revealCount,
                settleCount, firstRevealAt, clearCount, waitingErrorAt,
                lateForcedRuns, prefersReducedMotion, guardHits>>

\* ---------------------------------------------------------------- helpers
Max(a, b) == IF a >= b THEN a ELSE b
Min(a, b) == IF a <= b THEN a ELSE b

RemoveAt(s, i) == SubSeq(s, 1, i - 1) \o SubSeq(s, i + 1, Len(s))

\* setTimeout(callback, delay): the queue with the new callback armed.
\* late is bookkeeping: the callback was armed by an error event that arrived
\* after a reveal had been scheduled or executed.
\* armedAt and signalAt are bookkeeping too: when the callback was armed, and
\* when the call of handleVideoReady that led to it was made.
setTimeoutNoting(ts, kind, delay, late, signalAt) ==
  Append(ts, [id |-> nextTimerId, kind |-> kind, at |-> now + delay, late |-> late,
              armedAt |-> now, signalAt |-> signalAt])

setTimeout(ts, kind, delay, late) == setTimeoutNoting(ts, kind, delay, late, now)

\* Variant: the timer and every timer armed after it are cleared.
clearTimeout_FromId(ts, id) == SelectSeq(ts, LAMBDA t : t.id < id)

\* clearTimeout(id)
clearTimeout(ts, id) == SelectSeq(ts, LAMBDA t : t.id # id)

HasKind(ts, kind) == \E i \in DOMAIN ts : ts[i].kind = kind

\* A reveal is scheduled (its delayed callback is armed) or has executed.
RevealScheduledOrExecuted == isVideoReady \/ HasKind(timers, "reveal")

\* ------------------------------------------------------------ the loader
\* Variant: the reveal is not delayed at all.
RevealDelay_NoWait(loadTime) == 0

\* Variant: the time already elapsed is not subtracted.
RevealDelay_NoElapsed(loadTime) == config.MIN_DISPLAY_TIME

\* Math.max(0, CONFIG.MIN_DISPLAY_TIME - loadTime)
RevealDelay(loadTime) == Max(0, config.MIN_DISPLAY_TIME - loadTime)

\* Variant: handleVideoReady without its guard on isVideoReady.
handleVideoReady_NoGuard(ts) ==
  setTimeout(ts, "reveal", RevealDelay(now - videoLoadStartTime), FALSE)

\* handleVideoReady(container) run with timer queue ts: the queue afterwards.
handleVideoReady(ts) ==
  IF isVideoReady
    THEN ts
    ELSE setTimeout(ts, "reveal", RevealDelay(now - videoLoadStartTime), FALSE)

\* Variant: the forced reveal waits for FALLBACK_TIMEOUT.
useFallbackMethod_Slow(ts, late) ==
  setTimeout(ts, "forced", config.FALLBACK_TIMEOUT, late)

\* Variant: the forced reveal waits one second only.
useFallbackMethod_Short(ts, late) == setTimeout(ts, "forced", 1000, late)

\* useFallbackMethod(container) run with timer queue ts: the queue afterwards.
useFallbackMethod(ts, late) == setTimeout(ts, "forced", FORCED_REVEAL_DELAY, late)

\* setupFallbackTimeout(container) run with timer queue ts: the queue afterwards
\* (the id of the timer it arms, nextTimerId, is stored in fallbackTimer).
setupFallbackTimeout(ts) == setTimeout(ts, "fallback", config.FALLBACK_TIMEOUT, FALSE)

\* Variant: the settle waits for the 5 s of the animation only.
brightenAndFadeOut_Short(ts, signalAt) ==
  setTimeoutNoting(ts, "settle", 5000, FALSE, signalAt)

\* brightenAndFadeOut(container): the class list and the queue afterwards.
brightenAndFadeOutClass(cls) == cls \cup {"video-loaded"}
brightenAndFadeOut(ts, signalAt) ==
  setTimeoutNoting(ts, "settle", SETTLE_DELAY, FALSE, signalAt)

\* Variant: the handle is forgotten but the timer is not cleared.
clearFallbackTimeout_NotCleared(ts) == ts

\* clearFallbackTimeout(): the queue afterwards (fallbackTimer becomes null).
clearFallbackTimeout(ts) ==
  IF fallbackTimer # NoTimer THEN clearTimeout(ts, fallbackTimer) ELSE ts

\* The id counter after an action that left the queue ts.
NextId(ts) ==
  IF \E i \in DOMAIN ts : ts[i].id = nextTimerId THEN nextTimerId + 1 ELSE nextTimerId

\* The body of the callback handleVideoReady arms.
RevealCallback(rest, signalAt) ==
  /\ isVideoReady' = TRUE
  /\ containerClass' = brightenAndFadeOutClass(containerClass)
  /\ timers' = clearFallbackTimeout(brightenAndFadeOut(rest, signalAt))
  /\ fallbackTimer' = NoTimer
  /\ nextTimerId' = nextTimerId + 1
  /\ revealCount' = revealCount + 1
  /\ firstRevealAt' = IF firstRevealAt = NoTime THEN now ELSE firstRevealAt
  /\ clearCount' = IF fallbackTimer # NoTimer THEN clearCount + 1 ELSE clearCount

\* The body of the callback brightenAndFadeOut arms.
SettleCallback(rest) ==
  /\ containerClass' = containerClass \cup {"video-fully-loaded"}
  /\ timers' = rest
  /\ settleCount' = settleCount + 1

\* Variant: the expired fallback only logs its warning.
FallbackCallback_LogOnly(rest) ==
  /\ timers' = rest
  /\ nextTimerId' = nextTimerId

\* The body of the callback setupFallbackTimeout arms.
FallbackCallback(rest) ==
  /\ timers' = IF ~isVideoReady THEN handleVideoReady(rest) ELSE rest
  /\ nextTimerId' = NextId(timers')

\* Variant: the forced-reveal callback never calls handleVideoReady.
ForcedCallback_NoReveal(rest) ==
  /\ timers' = rest
  /\ nextTimerId' = nextTimerId

\* The body of the callback useFallbackMethod arms.
ForcedCallback(rest) ==
  /\ timers' = IF ~isVideoReady THEN handleVideoReady(rest) ELSE rest
  /\ nextTimerId' = NextId(timers')

\* initVimeoPlayer(), given what the document and the Vimeo API offer.
initVimeoPlayer ==
  \E iframePresent, apiLoaded, ctorThrows \in BOOLEAN :
    IF ~iframePresent \/ ~containerPresent
      THEN UNCHANGED <<videoLoadStartTime, player, readyPromise, playerListeners,
                       timers, fallbackTimer, nextTimerId>>
      ELSE /\ videoLoadStartTime' = now
           /\ IF ~apiLoaded \/ ctorThrows
                THEN /\ timers' = useFallbackMethod(timers, FALSE)
                     /\ UNCHANGED <<player, readyPromise, playerListeners, fallbackTimer>>
                ELSE /\ player' = "player"
                     /\ readyPromise' = "pending"
                     /\ playerListeners' = {"error"}
                     /\ timers' = setupFallbackTimeout(timers)
                     /\ fallbackTimer' = nextTimerId
           /\ nextTimerId' = nextTimerId + 1

\* checkUserPreferences() when prefers-reduced-motion matches (it returns false).
checkUserPreferences ==
  containerClass' = IF containerPresent
                      THEN containerClass \cup {"video-loaded"}
                      ELSE containerClass

\* init() when checkUserPreferences() returned false.
InitBypassed ==
  /\ checkUserPreferences
  /\ pc' = "bypassed"
  /\ UNCHANGED <<videoLoadStartTime, player, readyPromise, playerListeners, timers,
                 fallbackTimer, nextTimerId, docListeners>>

\* init() past the preference check: DOM wait or initVimeoPlayer(), then the
\* visibilitychange listener.
InitGateBody(loading) ==
  IF loading
    THEN /\ pc' = "loading"
         /\ docListeners' = {"DOMContentLoaded", "visibilitychange"}
         /\ UNCHANGED <<videoLoadStartTime, player, readyPromise, playerListeners,
                        timers, fallbackTimer, nextTimerId>>
    ELSE /\ pc' = "started"
         /\ docListeners' = {"visibilitychange"}
         /\ initVimeoPlayer

\* init() when checkUserPreferences() returned true.
InitGate(loading) ==
  /\ InitGateBody(loading)
  /\ UNCHANGED containerClass

\* Variant: init() ignores the result of checkUserPreferences().
init_NoReturn ==
  /\ pc = "boot"
  /\ \E loading \in BOOLEAN :
       /\ IF prefersReducedMotion THEN checkUserPreferences ELSE UNCHANGED containerClass
       /\ InitGateBody(loading)
  /\ UNCHANGED <<pageVars, guardHits, prefersReducedMotion, config, isVideoReady, containerPresent, now,
                 eventCount, revealCount, settleCount, firstRevealAt, clearCount,
                 waitingErrorAt, lateForcedRuns>>

\* init(): the script runs.
init ==
  /\ pc = "boot"
  /\ \E loading \in BOOLEAN :
       IF prefersReducedMotion THEN InitBypassed ELSE InitGate(loading)
  /\ UNCHANGED <<pageVars, guardHits, prefersReducedMotion, config,
                 isVideoReady, containerPresent, now,
                 eventCount, revealCount, settleCount, firstRevealAt, clearCount,
                 waitingErrorAt, lateForcedRuns>>

\* The document fires DOMContentLoaded.
DOMContentLoaded ==
  /\ pc = "loading"
  /\ "DOMContentLoaded" \in docListeners
  /\ pc' = "started"
  /\ initVimeoPlayer
  /\ UNCHANGED <<pageVars, guardHits, prefersReducedMotion, config,
                 isVideoReady, containerPresent, containerClass, docListeners,
                 now, eventCount, revealCount, settleCount, firstRevealAt, clearCount,
                 waitingErrorAt, lateForcedRuns>>

\* player.ready() resolves: the then-callback subscribes to the ready signals.
PlayerReadyResolves ==
  /\ readyPromise = "pending"
  /\ readyPromise' = "resolved"
  /\ playerListeners' = playerListeners \cup {"play", "bufferend", "timeupdate"}
  /\ UNCHANGED <<pageVars, guardHits, prefersReducedMotion, config,
                 player, videoLoadStartTime, isVideoReady, fallbackTimer, pc,
                 containerPresent, containerClass, docListeners, timers, nextTimerId,
                 now, eventCount, revealCount, settleCount, firstRevealAt, clearCount,
                 waitingErrorAt, lateForcedRuns>>

\* player.ready() rejects: the catch-callback starts the forced reveal.
PlayerReadyRejects ==
  /\ readyPromise = "pending"
  /\ readyPromise' = "rejected"
  /\ timers' = useFallbackMethod(timers, FALSE)
  /\ nextTimerId' = nextTimerId + 1
  /\ UNCHANGED <<pageVars, guardHits, prefersReducedMotion, config,
                 player, videoLoadStartTime, isVideoReady, fallbackTimer, pc,
                 containerPresent, containerClass, playerListeners, docListeners,
                 now, eventCount, revealCount, settleCount, firstRevealAt, clearCount,
                 waitingErrorAt, lateForcedRuns>>

\* What an event of the player leaves alone.
EventFrame ==
  UNCHANGED <<pageVars, prefersReducedMotion, config,
                 player, videoLoadStartTime, isVideoReady, fallbackTimer, pc,
              containerPresent, containerClass, readyPromise, playerListeners,
              docListeners, now, revealCount, settleCount, firstRevealAt, clearCount,
              lateForcedRuns>>

\* The player emits 'play'.
PlayEvent ==
  /\ player = "player"
  /\ eventCount < MaxEvents
  /\ eventCount' = eventCount + 1
  /\ timers' = IF "play" \in playerListeners THEN handleVideoReady(timers) ELSE timers
  /\ nextTimerId' = NextId(timers')
  /\ guardHits' = IF "play" \in playerListeners /\ isVideoReady
                    THEN guardHits + 1
                    ELSE guardHits
  /\ UNCHANGED waitingErrorAt
  /\ EventFrame

\* The player emits 'bufferend'.
BufferendEvent ==
  /\ player = "player"
  /\ eventCount < MaxEvents
  /\ eventCount' = eventCount + 1
  /\ timers' = IF "bufferend" \in playerListeners THEN handleVideoReady(timers) ELSE timers
  /\ nextTimerId' = NextId(timers')
  /\ guardHits' = IF "bufferend" \in playerListeners /\ isVideoReady
                    THEN guardHits + 1
                    ELSE guardHits
  /\ UNCHANGED waitingErrorAt
  /\ EventFrame

\* Variant: the listener also takes a position of exactly 0.5 s.
TimeupdatePasses_AtThreshold(seconds) ==
  seconds >= TIMEUPDATE_THRESHOLD /\ ~isVideoReady

\* The timeupdate listener: data.seconds > 0.5 && !isVideoReady.
TimeupdatePasses(seconds) == seconds > TIMEUPDATE_THRESHOLD /\ ~isVideoReady

\* The player emits 'timeupdate' at playback position seconds (ms).
TimeupdateEventAt(seconds) ==
  /\ player = "player"
  /\ eventCount < MaxEvents
  /\ eventCount' = eventCount + 1
  /\ timers' = IF "timeupdate" \in playerListeners /\ TimeupdatePasses(seconds)
                 THEN handleVideoReady(timers)
                 ELSE timers
  /\ nextTimerId' = NextId(timers')
  /\ UNCHANGED <<waitingErrorAt, guardHits>>
  /\ EventFrame

TimeupdateEvent == \E seconds \in TimeupdateSeconds : TimeupdateEventAt(seconds)

\* The player emits 'error'.
ErrorEvent ==
  /\ player = "player"
  /\ eventCount < MaxEvents
  /\ eventCount' = eventCount + 1
  /\ timers' = IF "error" \in playerListeners
                 THEN useFallbackMethod(timers, RevealScheduledOrExecuted)
                 ELSE timers
  /\ nextTimerId' = NextId(timers')
  /\ waitingErrorAt' = IF waitingErrorAt = NoTime /\ ~RevealScheduledOrExecuted
                         THEN now
                         ELSE waitingErrorAt
  /\ UNCHANGED guardHits
  /\ EventFrame

\* What a timer callback leaves alone, whatever its kind.
TimerFrame ==
  UNCHANGED <<pageVars, guardHits, prefersReducedMotion, config,
                 player, videoLoadStartTime, pc, containerPresent, readyPromise,
              playerListeners, docListeners, now, eventCount, waitingErrorAt>>

Due(i) == timers[i].at = now

\* The delayed reveal armed by handleVideoReady runs.
RevealTimerFires ==
  /\ \E i \in DOMAIN timers :
       /\ Due(i)
       /\ timers[i].kind = "reveal"
       /\ RevealCallback(RemoveAt(timers, i), timers[i].signalAt)
  /\ UNCHANGED <<settleCount, lateForcedRuns>>
  /\ TimerFrame

\* The settle callback armed by brightenAndFadeOut runs.
SettleTimerFires ==
  /\ \E i \in DOMAIN timers :
       /\ Due(i)
       /\ timers[i].kind = "settle"
       /\ SettleCallback(RemoveAt(timers, i))
  /\ UNCHANGED <<isVideoReady, fallbackTimer, nextTimerId, revealCount, firstRevealAt,
                 clearCount, lateForcedRuns>>
  /\ TimerFrame

\* The fallback timer armed by setupFallbackTimeout expires.
FallbackTimerFires ==
  /\ \E i \in DOMAIN timers :
       /\ Due(i)
       /\ timers[i].kind = "fallback"
       /\ FallbackCallback(RemoveAt(timers, i))
  /\ UNCHANGED <<isVideoReady, fallbackTimer, containerClass, revealCount, settleCount,
                 firstRevealAt, clearCount, lateForcedRuns>>
  /\ TimerFrame

\* The forced-reveal timer armed by useFallbackMethod expires.
ForcedTimerFires ==
  /\ \E i \in DOMAIN timers :
       /\ Due(i)
       /\ timers[i].kind = "forced"
       /\ ForcedCallback(RemoveAt(timers, i))
       /\ lateForcedRuns' = IF timers[i].late THEN lateForcedRuns + 1 ELSE lateForcedRuns
  /\ UNCHANGED <<isVideoReady, fallbackTimer, containerClass, revealCount, settleCount,
                 firstRevealAt, clearCount>>
  /\ TimerFrame

\* The earliest deadline among the armed timers, or limit if none is earlier.
NextDeadline(limit) ==
  IF \E i \in DOMAIN timers : timers[i].at < limit
    THEN CHOOSE d \in {timers[i].at : i \in DOMAIN timers} :
           \A j \in DOMAIN timers : d <= timers[j].at
    ELSE limit

\* Time passes while no callback is due, by step at most.
TickBy(step) ==
  /\ pc # "boot"
  /\ now < MaxTime
  /\ pc = "loading" => now < MaxDomDelay
  /\ \A i \in DOMAIN timers : timers[i].at > now
  /\ now' = NextDeadline(Min(now + step, MaxTime))
  /\ UNCHANGED <<pageVars, guardHits, prefersReducedMotion, config,
                 player, videoLoadStartTime, isVideoReady, fallbackTimer, pc,
                 containerPresent, containerClass, readyPromise, playerListeners,
                 docListeners, timers, nextTimerId, eventCount, revealCount,
                 settleCount, firstRevealAt, clearCount, waitingErrorAt,
                 lateForcedRuns>>

Tick == TickBy(Step)

\* Time passes in fine steps while the elapsed time still enters the delay
\* handleVideoReady computes, in coarse steps afterwards.
TickFine ==
  TickBy(IF videoLoadStartTime # NoTime
            /\ now - videoLoadStartTime < config.MIN_DISPLAY_TIME
           THEN FineStep
           ELSE Step)

\* ------------------------------------------------------ page visibility
\* Variant: handleVisibilityChange() resumes playback without looking at
\* isVideoReady.
handleVisibilityChange_NoReadyCheck(isHidden) ==
  IF isHidden /\ player = "player"
    THEN "pause"
    ELSE IF ~isHidden /\ player = "player"
           THEN "play"
           ELSE "none"

\* handleVisibilityChange(): the method it calls on the player, "none" if none.
handleVisibilityChange(isHidden) ==
  IF isHidden /\ player = "player"
    THEN "pause"
    ELSE IF ~isHidden /\ player = "player" /\ isVideoReady
           THEN "play"
           ELSE "none"

\* The document fires visibilitychange: document.hidden has flipped.
VisibilityChange ==
  /\ visibilityChanges < MaxVisibilityChanges
  /\ visibilityChanges' = visibilityChanges + 1
  /\ hidden' = ~hidden
  /\ lastVisibilityCall' = IF "visibilitychange" \in docListeners
                              THEN handleVisibilityChange(~hidden)
                              ELSE "none"
  /\ UNCHANGED <<loaderVars, menuVars, widgetVars>>

\* ------------------------------------------------------------ mobile menu
\* The part of the page the menu functions write.
Page ==
  [navActive |-> navActive, toggleActive |-> toggleActive,
   ariaExpanded |-> ariaExpanded, overlays |-> overlays,
   bodyOverflow |-> bodyOverflow, bodyPaddingRight |-> bodyPaddingRight]

\* The page becomes m.
SetPage(m) ==
  /\ navActive' = m.navActive
  /\ toggleActive' = m.toggleActive
  /\ ariaExpanded' = m.ariaExpanded
  /\ overlays' = m.overlays
  /\ bodyOverflow' = m.bodyOverflow
  /\ bodyPaddingRight' = m.bodyPaddingRight

\* createOverlay(): the number of #menu-overlay elements afterwards.
createOverlay(n) == IF n >= 1 THEN n ELSE n + 1

\* Variant: removeOverlay() leaves the overlay in the document.
removeOverlay_Keep(n) == n

\* removeOverlay(): the number of #menu-overlay elements afterwards.
removeOverlay(n) == IF n >= 1 THEN n - 1 ELSE n

\* openMobileMenu() on page m, the scrollbar being scrollbarWidth px wide.
openMobileMenu(m, scrollbarWidth) ==
  IF ~menuElements
    THEN m
    ELSE [m EXCEPT !.navActive = TRUE,
                   !.toggleActive = TRUE,
                   !.ariaExpanded = "true",
                   !.bodyOverflow = "hidden",
                   !.bodyPaddingRight = IF scrollbarWidth > 0
                                          THEN scrollbarWidth
                                          ELSE m.bodyPaddingRight,
                   !.overlays = createOverlay(m.overlays)]

\* closeMobileMenu() on page m.
closeMobileMenu(m) ==
  IF ~menuElements
    THEN m
    ELSE [m EXCEPT !.navActive = FALSE,
                   !.toggleActive = FALSE,
                   !.ariaExpanded = "false",
                   !.bodyOverflow = "",
                   !.overlays = removeOverlay(m.overlays)]

\* The click listener of the document on page m, the click being inside the
\* nav or the toggle or not.
DocumentClick(m, inside) ==
  IF "document click" \in menuListeners /\ m.navActive /\ ~inside
    THEN closeMobileMenu(m)
    ELSE m

\* initMobileMenu(): the listeners it registers.
initMobileMenu ==
  IF menuElements
    THEN {"toggle click", "document click", "keydown", "resize"}
    ELSE {}

\* What an event of the menu leaves alone, and its count.
MenuFrame ==
  /\ menuEvents < MaxMenuEvents
  /\ menuEvents' = menuEvents + 1
  /\ UNCHANGED <<loaderVars, visibilityVars, widgetVars, menuElements>>

\* init() of the navigation script: initSmoothScroll() and initMobileMenu().
NavigationInit ==
  /\ menuListeners = {}
  /\ menuListeners' = {"anchor click"} \cup initMobileMenu
  /\ UNCHANGED <<loaderVars, visibilityVars, widgetVars, menuElements, menuEvents, innerWidth,
                 preOpen, navActive, toggleActive, ariaExpanded, overlays,
                 bodyOverflow, bodyPaddingRight>>

\* A click on #mobileToggle (the listener stops its propagation).
ToggleClick ==
  /\ menuElements
  /\ \E scrollbarWidth \in ScrollbarWidths :
       IF "toggle click" \in menuListeners
         THEN IF navActive
                THEN SetPage(closeMobileMenu(Page)) /\ UNCHANGED preOpen
                ELSE /\ SetPage(openMobileMenu(Page, scrollbarWidth))
                     /\ preOpen' = [valid |-> TRUE, page |-> Page]
         ELSE SetPage(Page) /\ UNCHANGED preOpen
  /\ UNCHANGED <<menuListeners, innerWidth>>
  /\ MenuFrame

\* A click on the page outside the nav, the toggle and the overlay.
ClickOutside ==
  /\ SetPage(DocumentClick(Page, FALSE))
  /\ UNCHANGED <<menuListeners, innerWidth, preOpen>>
  /\ MenuFrame

\* A click on #menu-overlay: its listener, then the document's.
OverlayClick ==
  /\ overlays >= 1
  /\ SetPage(DocumentClick(closeMobileMenu(Page), FALSE))
  /\ UNCHANGED <<menuListeners, innerWidth, preOpen>>
  /\ MenuFrame

\* A keydown on the document.
KeyDown ==
  /\ \E key \in Keys :
       SetPage(IF "keydown" \in menuListeners /\ key = "Escape" /\ navActive
                 THEN closeMobileMenu(Page)
                 ELSE Page)
  /\ UNCHANGED <<menuListeners, innerWidth, preOpen>>
  /\ MenuFrame

\* The window is resized to some width.
Resize ==
  /\ \E width \in Widths :
       /\ innerWidth' = width
       /\ SetPage(IF "resize" \in menuListeners /\ width > MOBILE_MAX_WIDTH /\ navActive
                    THEN closeMobileMenu(Page)
                    ELSE Page)
  /\ UNCHANGED <<menuListeners, preOpen>>
  /\ MenuFrame

\* A click on an a[href^="#"] link, inside the nav or not, whose target is in
\* the document or not: the link's listener, then the document's.
AnchorClick ==
  /\ \E targetExists, insideNav \in BOOLEAN :
       /\ insideNav => menuElements
       /\ SetPage(DocumentClick(IF "anchor click" \in menuListeners /\ targetExists
                                  THEN closeMobileMenu(Page)
                                  ELSE Page,
                                insideNav))
  /\ UNCHANGED <<menuListeners, innerWidth, preOpen>>
  /\ MenuFrame

\* ----------------------------------------------------------- header scroll
\* The scroll listener's first part: the shadow class.
headerShadow(cls, currentScroll) ==
  IF currentScroll > SCROLLED_OFFSET
    THEN cls \cup {"scrolled"}
    ELSE cls \ {"scrolled"}

\* Variant: the scroll-down branch leaves 'scroll-up' on the header.
headerHideShow_KeepsScrollUp(cls, currentScroll) ==
  IF currentScroll > scrollThreshold
    THEN IF currentScroll > lastScroll /\ "scroll-down" \notin cls
           THEN cls \cup {"scroll-down"}
           ELSE IF currentScroll < lastScroll /\ "scroll-down" \in cls
                  THEN (cls \cup {"scroll-up"}) \ {"scroll-down"}
                  ELSE cls
    ELSE cls

\* The scroll listener's second part: hide on scroll down, show on scroll up.
headerHideShow(cls, currentScroll) ==
  IF currentScroll > scrollThreshold
    THEN IF currentScroll > lastScroll /\ "scroll-down" \notin cls
           THEN (cls \cup {"scroll-down"}) \ {"scroll-up"}
           ELSE IF currentScroll < lastScroll /\ "scroll-down" \in cls
                  THEN (cls \cup {"scroll-up"}) \ {"scroll-down"}
                  ELSE cls
    ELSE cls

\* What the header's steps leave alone.
HeaderFrame ==
  UNCHANGED <<loaderVars, visibilityVars, menuVars, pricingVars, counterVars,
              headerPresent>>

\* initHeaderScroll(): the listener is registered if #header exists.
initHeaderScroll ==
  /\ ~headerListener
  /\ headerPresent
  /\ headerListener' = TRUE
  /\ UNCHANGED <<headerClass, lastScroll, pageYOffset, scrollEvents>>
  /\ HeaderFrame

\* The window fires scroll, the page being at some other offset than before.
ScrollEvent ==
  /\ scrollEvents < MaxScrollEvents
  /\ scrollEvents' = scrollEvents + 1
  /\ \E currentScroll \in ScrollPositions \ {pageYOffset} :
       /\ pageYOffset' = currentScroll
       /\ IF headerListener
            THEN /\ headerClass' = headerHideShow(headerShadow(headerClass, currentScroll),
                                                  currentScroll)
                 /\ lastScroll' = currentScroll
            ELSE UNCHANGED <<headerClass, lastScroll>>
  /\ UNCHANGED headerListener
  /\ HeaderFrame

\* ----------------------------------------------------------- pricing tabs
\* The .pricing__content elements among those with a data-content attribute.
PricingContents == {j \in DOMAIN dataContent : dataContent[j].pricing}

\* document.querySelector('[data-content="key"]'): the first such element of
\* the document, 0 for null.
querySelectorContent(key) ==
  IF \E j \in DOMAIN dataContent : dataContent[j].content = key
    THEN CHOOSE j \in DOMAIN dataContent :
           /\ dataContent[j].content = key
           /\ \A k \in 1..(j - 1) : dataContent[k].content # key
    ELSE 0

\* Variant: the click listener leaves the other tabs active.
tabClick_KeepsOthers(i) ==
  [tabActive |-> tabActive \cup {i},
   contentActive |-> (contentActive \ PricingContents)
                       \cup ({querySelectorContent(i)} \ {0})]

\* The click listener of tab i: the classes afterwards.
tabClick(i) ==
  [tabActive |-> {i},
   contentActive |-> (contentActive \ PricingContents)
                       \cup ({querySelectorContent(i)} \ {0})]

\* Variant: ArrowLeft on the first tab stays on it.
prevTab_NoWrap(i) == IF i - 1 >= 1 THEN i - 1 ELSE 1

\* tabs[index - 1] || tabs[tabs.length - 1]
prevTab(i) == IF i - 1 >= 1 THEN i - 1 ELSE tabCount

\* tabs[index + 1] || tabs[0]
nextTab(i) == IF i + 1 <= tabCount THEN i + 1 ELSE 1

\* What an event on the pricing tabs leaves alone, and its count; the script
\* has run when the user reaches the tabs.
PricingFrame ==
  /\ pricingInitDone
  /\ tabEvents < MaxTabEvents
  /\ tabEvents' = tabEvents + 1
  /\ UNCHANGED <<loaderVars, visibilityVars, menuVars, headerVars, counterVars,
                 tabCount, dataContent, pricingInitDone, pricingListeners>>

\* initPricingTabs(): the listeners are registered unless the page has no
\* tab or no content.
initPricingTabs ==
  /\ ~pricingInitDone
  /\ pricingInitDone' = TRUE
  /\ pricingListeners' = ~(tabCount = 0 \/ PricingContents = {})
  /\ UNCHANGED <<loaderVars, visibilityVars, menuVars, headerVars, counterVars,
                 tabCount, dataContent, tabActive, contentActive, focusedTab, lastClicked,
                 rightRun, rightRunStart, tabEvents>>

\* The user clicks tab i, which may take the focus.
TabClick ==
  /\ \E i \in 1..tabCount :
       /\ lastClicked' = i
       /\ focusedTab' \in {focusedTab, i}
       /\ IF pricingListeners
            THEN /\ tabActive' = tabClick(i).tabActive
                 /\ contentActive' = tabClick(i).contentActive
            ELSE UNCHANGED <<tabActive, contentActive>>
  /\ rightRun' = 0
  /\ rightRunStart' = 0
  /\ PricingFrame

\* The user moves the focus to tab i.
TabFocus ==
  /\ \E i \in 1..tabCount :
       /\ i # focusedTab
       /\ focusedTab' = i
  /\ rightRun' = 0
  /\ rightRunStart' = 0
  /\ UNCHANGED <<tabActive, contentActive, lastClicked>>
  /\ PricingFrame

\* The keydown listener of the focused tab moves to tab target: click(), focus().
TabKeyMoves(target) ==
  /\ tabActive' = tabClick(target).tabActive
  /\ contentActive' = tabClick(target).contentActive
  /\ lastClicked' = target
  /\ focusedTab' = target

\* The user presses key on the focused tab.
TabKeyDownWith(key) ==
  /\ focusedTab # 0
  /\ IF pricingListeners /\ key = "ArrowRight"
       THEN TabKeyMoves(nextTab(focusedTab))
       ELSE IF pricingListeners /\ key = "ArrowLeft"
              THEN TabKeyMoves(prevTab(focusedTab))
              ELSE UNCHANGED <<tabActive, contentActive, lastClicked, focusedTab>>
  /\ rightRun' = IF key = "ArrowRight" THEN rightRun + 1 ELSE 0
  /\ rightRunStart' = IF key = "ArrowRight"
                         THEN IF rightRun = 0 THEN focusedTab ELSE rightRunStart
                         ELSE 0
  /\ PricingFrame

TabKeyDown == \E key \in TabKeys : TabKeyDownWith(key)

\* --------------------------------------------------------- number counters
Digits == <<"0", "1", "2", "3", "4", "5", "6", "7", "8", "9">>

IsDigit(c) == \E d \in DOMAIN Digits : Digits[d] = c

DigitValue(c) == (CHOOSE d \in DOMAIN Digits : Digits[d] = c) - 1

\* String.prototype.trim() for texts whose white space is the blank.
RECURSIVE trim(_)
trim(t) ==
  IF t = <<>>
    THEN t
    ELSE IF Head(t) = " "
           THEN trim(Tail(t))
           ELSE IF t[Len(t)] = " "
                  THEN trim(SubSeq(t, 1, Len(t) - 1))
                  ELSE t

\* target.replace(/[^0-9]/g, '')
RECURSIVE digitsOnly(_)
digitsOnly(t) ==
  IF t = <<>>
    THEN <<>>
    ELSE (IF IsDigit(Head(t)) THEN <<Head(t)>> ELSE <<>>) \o digitsOnly(Tail(t))

\* parseInt() of a string of digits, NaN for the empty string.
RECURSIVE parseInt(_)
parseInt(t) ==
  IF t = <<>>
    THEN NaN
    ELSE IF Len(t) = 1
           THEN DigitValue(t[1])
           ELSE 10 * parseInt(SubSeq(t, 1, Len(t) - 1)) + DigitValue(t[Len(t)])

\* The decimal digits of n.
RECURSIVE numberToString(_)
numberToString(n) ==
  IF n < 10
    THEN <<Digits[n + 1]>>
    ELSE numberToString(n \div 10) \o <<Digits[(n % 10) + 1]>>

\* Number.prototype.toLocaleString() in a locale that groups by thousands
\* with a comma.
RECURSIVE toLocaleString(_)
toLocaleString(n) ==
  IF n < 1000
    THEN numberToString(n)
    ELSE toLocaleString(n \div 1000) \o <<",">>
           \o SubSeq(numberToString(1000 + (n % 1000)), 2, 4)

\* target.includes('+')
includesPlus(t) == \E i \in DOMAIN t : t[i] = "+"

\* duration / 16: the frames of an animation.
Frames == COUNTER_DURATION \div FRAME_INTERVAL

\* The text the interval callback of animation iv writes at its frame ticks:
\* current = ticks * increment, increment = targetNumber / (duration / 16).
frameText(iv, ticks) ==
  IF ticks * iv.targetNumber >= Frames * iv.targetNumber
    THEN iv.target
    ELSE toLocaleString((ticks * iv.targetNumber) \div Frames)
           \o (IF includesPlus(iv.target) THEN <<"+">> ELSE <<>>)

\* animateCounter(element): the running intervals afterwards.
animateCounter(ivs, text) ==
  IF parseInt(digitsOnly(trim(text))) = NaN
    THEN ivs
    ELSE Append(ivs, [target |-> trim(text),
                      targetNumber |-> parseInt(digitsOnly(trim(text))),
                      ticks |-> 0])

\* Variant: the observer's callback animates whenever the counter intersects.
observerAnimates_NoGuard(entryIntersecting) == entryIntersecting

\* The observer's callback: entry.isIntersecting && !classList.contains('counted').
observerAnimates(entryIntersecting) == entryIntersecting /\ ~counted

\* What the counter's steps leave alone.
CounterFrame ==
  UNCHANGED <<loaderVars, visibilityVars, menuVars, headerVars, pricingVars,
              originalText>>

\* initNumberCounters(): the observer observes the counter.
initNumberCounters ==
  /\ ~observing
  /\ observing' = TRUE
  /\ UNCHANGED <<counterText, counted, isIntersecting, intervals, intervalsStarted,
                 intersections>>
  /\ CounterFrame

\* The counter crosses the observer's threshold; the observer's callback runs.
Intersection ==
  /\ observing
  /\ intersections < MaxIntersections
  /\ intersections' = intersections + 1
  /\ isIntersecting' = ~isIntersecting
  /\ IF observerAnimates(~isIntersecting)
       THEN /\ intervals' = animateCounter(intervals, counterText)
            /\ intervalsStarted' = intervalsStarted + Len(intervals') - Len(intervals)
            /\ counted' = TRUE
       ELSE UNCHANGED <<intervals, intervalsStarted, counted>>
  /\ UNCHANGED <<counterText, observing>>
  /\ CounterFrame

\* A callback of setInterval runs: one frame of an animation.
IntervalTick ==
  /\ \E i \in DOMAIN intervals :
       /\ counterText' = frameText(intervals[i], intervals[i].ticks + 1)
       /\ intervals' =
            IF (intervals[i].ticks + 1) * intervals[i].targetNumber
                 >= Frames * intervals[i].targetNumber
              THEN RemoveAt(intervals, i)
              ELSE [intervals EXCEPT ![i].ticks = intervals[i].ticks + 1]
  /\ UNCHANGED <<counted, isIntersecting, observing, intervalsStarted, intersections>>
  /\ CounterFrame

\* The state of the page before the script runs.
InitState ==
  /\ player = "null"
  /\ videoLoadStartTime = NoTime
  /\ isVideoReady = FALSE
  /\ fallbackTimer = NoTimer
  /\ pc = "boot"
  /\ containerPresent \in BOOLEAN
  /\ containerClass = {}
  /\ readyPromise = "none"
  /\ playerListeners = {}
  /\ docListeners = {}
  /\ timers = <<>>
  /\ nextTimerId = 1
  /\ now = 0
  /\ eventCount = 0
  /\ revealCount = 0
  /\ settleCount = 0
  /\ firstRevealAt = NoTime
  /\ clearCount = 0
  /\ waitingErrorAt = NoTime
  /\ lateForcedRuns = 0
  /\ prefersReducedMotion \in BOOLEAN
  /\ guardHits = 0

\* The page is visible and no visibilitychange was delivered.
VisibilityBoot ==
  /\ hidden = FALSE
  /\ lastVisibilityCall = "none"
  /\ visibilityChanges = 0

\* The menu of a page as served: closed, nothing registered yet.
MenuClosed ==
  /\ menuListeners = {}
  /\ navActive = FALSE
  /\ toggleActive = FALSE
  /\ overlays = 0
  /\ bodyOverflow = ""
  /\ bodyPaddingRight = 0
  /\ preOpen = [valid |-> FALSE, page |-> Page]
  /\ menuEvents = 0

MenuBoot ==
  /\ menuElements = TRUE
  /\ ariaExpanded = "false"
  /\ innerWidth = MOBILE_MAX_WIDTH + 1
  /\ MenuClosed

\* The header as served, the page at its top.
HeaderBoot ==
  /\ headerListener = FALSE
  /\ headerClass = {}
  /\ lastScroll = 0
  /\ pageYOffset = 0
  /\ scrollEvents = 0

\* The pricing tabs before any event: no listener, no focus.
PricingIdle ==
  /\ pricingInitDone = FALSE
  /\ pricingListeners = FALSE
  /\ focusedTab = 0
  /\ lastClicked = 0
  /\ rightRun = 0
  /\ rightRunStart = 0
  /\ tabEvents = 0

\* A page without pricing section.
PricingBoot ==
  /\ tabCount = 0
  /\ dataContent = <<>>
  /\ tabActive = {}
  /\ contentActive = {}
  /\ PricingIdle

\* A counter before the script runs, not yet in view.
CounterIdle ==
  /\ counterText = originalText
  /\ counted = FALSE
  /\ isIntersecting = FALSE
  /\ observing = FALSE
  /\ intervals = <<>>
  /\ intervalsStarted = 0
  /\ intersections = 0

\* A counter without text.
CounterBoot ==
  /\ originalText = <<>>
  /\ CounterIdle

\* The other components of the page as served.
WidgetsBoot ==
  /\ headerPresent = TRUE
  /\ HeaderBoot
  /\ PricingBoot
  /\ CounterBoot

Init ==
  /\ config = [FALLBACK_TIMEOUT |-> FALLBACK_TIMEOUT, MIN_DISPLAY_TIME |-> MIN_DISPLAY_TIME]
  /\ InitState
  /\ VisibilityBoot
  /\ MenuBoot
  /\ WidgetsBoot

\* The loader under any configured minimum display time.
InitAnyConfig ==
  /\ config \in [FALLBACK_TIMEOUT : {FALLBACK_TIMEOUT}, MIN_DISPLAY_TIME : MinDisplayValues]
  /\ InitState
  /\ VisibilityBoot
  /\ MenuBoot
  /\ WidgetsBoot

Next ==
  \/ init
  \/ DOMContentLoaded
  \/ PlayerReadyResolves
  \/ PlayerReadyRejects
  \/ PlayEvent
  \/ BufferendEvent
  \/ TimeupdateEvent
  \/ ErrorEvent
  \/ RevealTimerFires
  \/ SettleTimerFires
  \/ FallbackTimerFires
  \/ ForcedTimerFires
  \/ Tick

TimerFires ==
  RevealTimerFires \/ SettleTimerFires \/ FallbackTimerFires \/ ForcedTimerFires

Spec == Init /\ [][Next]_vars

\* Armed timers eventually fire and time keeps passing.
FairSpec == Spec /\ WF_vars(Tick) /\ WF_vars(TimerFires)

SpecAnyConfig == InitAnyConfig /\ [][Next]_vars

\* The loader with time followed in fine steps during the minimum display time.
NextFine ==
  \/ init
  \/ DOMContentLoaded
  \/ PlayerReadyResolves
  \/ PlayerReadyRejects
  \/ PlayEvent
  \/ BufferendEvent
  \/ TimeupdateEvent
  \/ ErrorEvent
  \/ RevealTimerFires
  \/ SettleTimerFires
  \/ FallbackTimerFires
  \/ ForcedTimerFires
  \/ TickFine

SpecFine == Init /\ [][NextFine]_vars

\* The page is shown or opened in the background.
InitVisibility ==
  /\ config = [FALLBACK_TIMEOUT |-> FALLBACK_TIMEOUT, MIN_DISPLAY_TIME |-> MIN_DISPLAY_TIME]
  /\ InitState
  /\ hidden \in BOOLEAN
  /\ lastVisibilityCall = "none"
  /\ visibilityChanges = 0
  /\ MenuBoot
  /\ WidgetsBoot

\* The loader with the page's visibility changing.
NextVisibility ==
  \/ init
  \/ DOMContentLoaded
  \/ PlayerReadyResolves
  \/ PlayerReadyRejects
  \/ PlayEvent
  \/ BufferendEvent
  \/ TimeupdateEvent
  \/ ErrorEvent
  \/ RevealTimerFires
  \/ SettleTimerFires
  \/ FallbackTimerFires
  \/ ForcedTimerFires
  \/ Tick
  \/ VisibilityChange

SpecVisibility == InitVisibility /\ [][NextVisibility]_vars

\* A page as served, with or without the menu's elements.
InitMenu ==
  /\ config = [FALLBACK_TIMEOUT |-> FALLBACK_TIMEOUT, MIN_DISPLAY_TIME |-> MIN_DISPLAY_TIME]
  /\ InitState
  /\ VisibilityBoot
  /\ menuElements \in BOOLEAN
  /\ ariaExpanded \in {"null", "false"}
  /\ innerWidth \in Widths
  /\ MenuClosed
  /\ WidgetsBoot

\* The mobile menu alone.
NextMenu ==
  \/ NavigationInit
  \/ ToggleClick
  \/ ClickOutside
  \/ OverlayClick
  \/ KeyDown
  \/ Resize
  \/ AnchorClick

SpecMenu == InitMenu /\ [][NextMenu]_vars

\* The gate before the script runs, on a page with the hero video.
LoaderIdle ==
  /\ config = [FALLBACK_TIMEOUT |-> FALLBACK_TIMEOUT, MIN_DISPLAY_TIME |-> MIN_DISPLAY_TIME]
  /\ InitState
  /\ containerPresent
  /\ ~prefersReducedMotion
  /\ VisibilityBoot
  /\ MenuBoot

\* A page with or without #header, served at its top or at a restored offset.
InitHeader ==
  /\ LoaderIdle
  /\ headerPresent \in BOOLEAN
  /\ headerListener = FALSE
  /\ headerClass = {}
  /\ lastScroll = 0
  /\ pageYOffset \in ScrollPositions
  /\ scrollEvents = 0
  /\ PricingBoot
  /\ CounterBoot

\* The header's scroll behaviour alone.
NextHeader ==
  \/ initHeaderScroll
  \/ ScrollEvent

SpecHeader == InitHeader /\ [][NextHeader]_vars

\* The elements that may carry a data-content attribute: a pricing content
\* or another element, for the data-tab of some tab or not.
DataContentElements == [content : 1..MaxTabs, pricing : BOOLEAN]

\* A page with any tabs and data-content elements, served with nothing active
\* or with the first tab and the first content active.
InitPricing ==
  /\ LoaderIdle
  /\ headerPresent = TRUE
  /\ HeaderBoot
  /\ tabCount \in 0..MaxTabs
  /\ \E n \in 0..MaxDataContent : dataContent \in [1..n -> DataContentElements]
  /\ \E served \in BOOLEAN :
       /\ tabActive = IF served /\ tabCount # 0 THEN {1} ELSE {}
       /\ contentActive = IF served /\ PricingContents # {}
                             THEN {CHOOSE j \in PricingContents :
                                     \A k \in PricingContents : j <= k}
                             ELSE {}
  /\ PricingIdle
  /\ CounterBoot

\* The pricing tabs alone.
NextPricing ==
  \/ initPricingTabs
  \/ TabClick
  \/ TabFocus
  \/ TabKeyDown

SpecPricing == InitPricing /\ [][NextPricing]_vars

\* A counter with any text of the characters followed.
InitCounter ==
  /\ LoaderIdle
  /\ headerPresent = TRUE
  /\ HeaderBoot
  /\ PricingBoot
  /\ \E n \in 0..MaxTextLen : originalText \in [1..n -> TextChars]
  /\ CounterIdle

\* One number counter alone.
NextCounter ==
  \/ initNumberCounters
  \/ Intersection
  \/ IntervalTick

\* The browser keeps running the callbacks of a running interval.
SpecCounter == InitCounter /\ [][NextCounter]_vars /\ WF_vars(IntervalTick)

TypeOK ==
  /\ player \in {"null", "player"}
  /\ isVideoReady \in BOOLEAN
  /\ pc \in {"boot", "bypassed", "loading", "started"}
  /\ containerClass \subseteq {"video-loaded", "video-fully-loaded"}
  /\ readyPromise \in {"none", "pending", "resolved", "rejected"}
  /\ now \in 0..(MaxTime + 1)
  /\ \A i \in DOMAIN timers : timers[i].at >= now /\ timers[i].id < nextTimerId

\* ------------------------------------------------------------- properties
\* initVimeoPlayer() found the hero elements and recorded the start time.
GateStarted == videoLoadStartTime # NoTime

\* The gate runs without a player (API absent or the constructor threw).
Degraded == GateStarted /\ player = "null"

Loaded == "video-loaded" \in containerClass
FullyLoaded == "video-fully-loaded" \in containerClass

\* C1: over any sequence of ready signals the reveal executes at most once and
\* the settle executes at most once (no second execution ever happens).
C1_RevealAndSettleOnce == revealCount <= 1 /\ settleCount <= 1

\* C2: 'video-loaded' is never on the container of a started gate, and no
\* reveal has ever executed, earlier than MIN_DISPLAY_TIME after the start
\* time recorded in initVimeoPlayer.
C2_RevealNotBeforeMinDisplay ==
  /\ (GateStarted /\ Loaded) => now - videoLoadStartTime >= MIN_DISPLAY_TIME
  /\ firstRevealAt # NoTime => firstRevealAt - videoLoadStartTime >= MIN_DISPLAY_TIME

C2_Witness ==
  /\ eventCount > 0
  /\ Loaded
  /\ firstRevealAt = videoLoadStartTime + MIN_DISPLAY_TIME

\* C3: with a player constructed and no player event delivered, time does not
\* pass FALLBACK_TIMEOUT + MIN_DISPLAY_TIME after start without a reveal.
C3_FallbackBound ==
  (player = "player" /\ eventCount = 0
     /\ now - videoLoadStartTime > FALLBACK_TIMEOUT + MIN_DISPLAY_TIME)
  => (revealCount >= 1 /\ Loaded)

C3_Witness ==
  /\ player = "player"
  /\ eventCount = 0
  /\ readyPromise = "pending"
  /\ firstRevealAt = videoLoadStartTime + FALLBACK_TIMEOUT
  /\ now - videoLoadStartTime > FALLBACK_TIMEOUT + MIN_DISPLAY_TIME

\* C4: once the gate is started with the hero elements present, whatever the
\* failure class, the container eventually carries 'video-loaded' and then
\* 'video-fully-loaded' (armed timers fire, time passes).
C4_Converges ==
  /\ GateStarted ~> Loaded
  /\ (GateStarted /\ Loaded) ~> (Loaded /\ FullyLoaded)

C4_Witness ==
  /\ Degraded
  /\ Loaded
  /\ FullyLoaded

C6_FinalMarkersAtInit ==
  (pc # "boot" /\ prefersReducedMotion /\ containerPresent)
  => (Loaded /\ FullyLoaded)

\* C7: when the reduced-motion preference matches, after init() no player
\* exists, no timer was ever armed, no document listener is registered, and
\* isVideoReady and the markers stay as init() left them.
C7_Bypassed ==
  (pc # "boot" /\ prefersReducedMotion)
  => /\ pc = "bypassed"
     /\ player = "null"
     /\ readyPromise = "none"
     /\ playerListeners = {}
     /\ videoLoadStartTime = NoTime
     /\ timers = <<>>
     /\ nextTimerId = 1
     /\ fallbackTimer = NoTimer
     /\ docListeners = {}
     /\ ~isVideoReady
     /\ containerClass = IF containerPresent THEN {"video-loaded"} ELSE {}

C7_Witness ==
  /\ pc = "bypassed"
  /\ containerPresent
  /\ now >= FALLBACK_TIMEOUT + MIN_DISPLAY_TIME + SETTLE_DELAY

\* C8: an error event received while the gate is waiting arms the forced
\* reveal at once, and time does not pass 3000 ms after that event without a
\* reveal.
C8_ErrorForcesReveal ==
  waitingErrorAt # NoTime
  => /\ now < waitingErrorAt + FORCED_REVEAL_DELAY
          => \E i \in DOMAIN timers :
               /\ timers[i].kind = "forced"
               /\ timers[i].at = waitingErrorAt + FORCED_REVEAL_DELAY
     /\ now > waitingErrorAt + FORCED_REVEAL_DELAY => (revealCount >= 1 /\ Loaded)

C8_Witness ==
  /\ waitingErrorAt # NoTime
  /\ eventCount = 1
  /\ firstRevealAt = waitingErrorAt + FORCED_REVEAL_DELAY
  /\ firstRevealAt < videoLoadStartTime + FALLBACK_TIMEOUT

\* C9 as stated: from the moment a reveal is scheduled the fallback timer is
\* released (no handle is held and no fallback callback is armed).
C9_ReleasedWhenScheduled ==
  RevealScheduledOrExecuted
  => (fallbackTimer = NoTimer /\ ~HasKind(timers, "fallback"))

\* C9 amended: the fallback timer is released when the delayed reveal runs,
\* not when it is scheduled: no handle is released before the first reveal,
\* one is released at most once, and from the first reveal on no handle is
\* held and no fallback callback is armed.
C9_ReleasedWhenRevealed ==
  /\ clearCount <= 1
  /\ revealCount = 0
       => /\ clearCount = 0
          /\ player = "player" => fallbackTimer # NoTimer
  /\ revealCount >= 1
       => /\ fallbackTimer = NoTimer
          /\ ~HasKind(timers, "fallback")
          /\ player = "player" => clearCount = 1

C9_Witness ==
  /\ player = "player"
  /\ revealCount >= 1
  /\ clearCount = 1
  /\ firstRevealAt < videoLoadStartTime + FALLBACK_TIMEOUT
  /\ now > videoLoadStartTime + FALLBACK_TIMEOUT

\* A forced-reveal callback armed by a late error event runs in this step.
LateForcedRuns == lateForcedRuns' = lateForcedRuns + 1

\* C10: the forced-reveal callback armed by an error event that arrived after
\* a reveal was scheduled or executed finds isVideoReady true and does
\* nothing: it arms no reveal and changes no marker.
C10_LateErrorDoesNothing ==
  [][LateForcedRuns
       => /\ isVideoReady
          /\ Len(timers') = Len(timers) - 1
          /\ ~\E i \in DOMAIN timers' : timers'[i].id = nextTimerId
          /\ UNCHANGED <<isVideoReady, containerClass, revealCount, settleCount,
                         fallbackTimer>>]_vars

C10_Witness ==
  /\ lateForcedRuns >= 1
  /\ revealCount = 1
  /\ ~HasKind(timers, "reveal")

\* The scheduled reveals that leave the timer queue in this step.
RevealsLeaving ==
  {i \in DOMAIN timers :
     /\ timers[i].kind = "reveal"
     /\ ~\E j \in DOMAIN timers' : timers'[j] = timers[i]}

\* C11: a scheduled reveal is never cancelled or delayed, in particular not by
\* clearFallbackTimeout: its handle is not the fallback handle, its deadline
\* is never passed, and it leaves the queue only by running at its deadline
\* (one reveal per step, every other scheduled reveal stays armed).
C11_ScheduledRevealFires ==
  [][/\ \A i \in DOMAIN timers :
          timers[i].kind = "reveal"
          => timers[i].id # fallbackTimer /\ timers[i].at >= now
     /\ Cardinality(RevealsLeaving) <= 1
     /\ \A i \in RevealsLeaving :
          timers[i].at = now /\ revealCount' = revealCount + 1]_vars

\* A reveal ran and released the fallback timer while another reveal was
\* scheduled, and that one is still armed.
C11_Witness ==
  /\ revealCount = 1
  /\ clearCount = 1
  /\ HasKind(timers, "reveal")
  /\ ~HasKind(timers, "fallback")

\* A call of handleVideoReady passes the guard in this step and schedules a
\* reveal (the WAITING -> SCHEDULED edge).
ScheduleStep ==
  \E i \in DOMAIN timers' :
    timers'[i].kind = "reveal" /\ timers'[i].id = nextTimerId

\* C12: the gate only moves forward: 'video-fully-loaded' never without
\* 'video-loaded', no marker is ever removed, a reveal is scheduled only while
\* none is scheduled or executed, and once 'video-fully-loaded' is set no
\* schedule, reveal or settle callback executes.
C12_ForwardOnly ==
  [][/\ FullyLoaded => Loaded
     /\ FullyLoaded' => Loaded'
     /\ containerClass \subseteq containerClass'
     /\ ScheduleStep => ~RevealScheduledOrExecuted
     /\ FullyLoaded => /\ ~ScheduleStep
                       /\ revealCount' = revealCount
                       /\ settleCount' = settleCount]_vars

\* C13: isVideoReady is assigned true by the delayed reveal only and exactly
\* once (each executed reveal assigns it), it is false until the first reveal
\* executes, also while a reveal is scheduled, and for a started gate it is
\* true exactly when 'video-loaded' is on the container.
C13_ReadyFlagSetOnce ==
  /\ revealCount <= 1
  /\ isVideoReady <=> revealCount >= 1
  /\ pc # "bypassed" => (isVideoReady <=> Loaded)
  /\ pc = "boot" => ~isVideoReady

\* A listener or timer callback that may call handleVideoReady runs in this step.
ReadyCallStep ==
  \/ PlayEvent
  \/ BufferendEvent
  \/ TimeupdateEvent
  \/ FallbackTimerFires
  \/ ForcedTimerFires

\* C14: a ready signal or timer expiry handled while isVideoReady is true arms
\* no timer and changes neither the flag, the fallback handle nor the
\* markers.
C14_ReadyCallIsNoOp ==
  [][(isVideoReady /\ ReadyCallStep)
       => /\ \A j \in DOMAIN timers' : \E i \in DOMAIN timers : timers[i] = timers'[j]
          /\ UNCHANGED <<nextTimerId, isVideoReady, fallbackTimer, containerClass,
                         revealCount, settleCount>>]_vars

C14_Witness ==
  /\ guardHits >= 1
  /\ isVideoReady
  /\ revealCount = 1

\* C15: a reveal is armed max(0, MIN_DISPLAY_TIME - elapsed) after its ready
\* signal and runs then, and the settle runs SETTLE_DELAY after the reveal;
\* with start at 0 and the signal at 200 ms the reveal runs at 1500 ms and
\* the settle at 7000 ms.
C15_RevealAndSettleTimes ==
  /\ \A i \in DOMAIN timers :
       timers[i].kind = "reveal"
       => /\ timers[i].signalAt = timers[i].armedAt
          /\ timers[i].at =
               timers[i].armedAt
               + Max(0, MIN_DISPLAY_TIME - (timers[i].armedAt - videoLoadStartTime))
          /\ (videoLoadStartTime = 0 /\ timers[i].signalAt = 200)
               => timers[i].at = 1500
  /\ \A i \in DOMAIN timers :
       timers[i].kind = "settle"
       => /\ timers[i].armedAt =
               Max(timers[i].signalAt, videoLoadStartTime + MIN_DISPLAY_TIME)
          /\ timers[i].at = timers[i].armedAt + SETTLE_DELAY
          /\ (videoLoadStartTime = 0 /\ timers[i].signalAt = 200)
               => (timers[i].armedAt = 1500 /\ timers[i].at = 7000)
  /\ FullyLoaded => (firstRevealAt # NoTime /\ now >= firstRevealAt + SETTLE_DELAY)
  /\ (firstRevealAt # NoTime /\ now > firstRevealAt + SETTLE_DELAY) => FullyLoaded

\* The scenario: start at 0, one signal at 200 ms, the reveal has run at
\* 1500 ms and the settle is armed for 7000 ms.
C15_Witness ==
  /\ videoLoadStartTime = 0
  /\ eventCount = 1
  /\ revealCount = 1
  /\ firstRevealAt = 1500
  /\ \E i \in DOMAIN timers :
       /\ timers[i].kind = "settle"
       /\ timers[i].signalAt = 200
       /\ timers[i].at = 7000

\* C16: with a player, no player event and no rejected ready promise, the
\* reveal is scheduled by the fallback callback at start + FALLBACK_TIMEOUT
\* with no further delay and runs at that same time.
C16_FallbackRevealsAtOnce ==
  (player = "player" /\ eventCount = 0 /\ readyPromise # "rejected")
  => /\ \A i \in DOMAIN timers :
          timers[i].kind = "reveal"
          => /\ timers[i].armedAt = videoLoadStartTime + FALLBACK_TIMEOUT
             /\ timers[i].at = timers[i].armedAt
     /\ firstRevealAt # NoTime
          => firstRevealAt = videoLoadStartTime + FALLBACK_TIMEOUT
     /\ now > videoLoadStartTime + FALLBACK_TIMEOUT => revealCount = 1

C16_Witness ==
  /\ player = "player"
  /\ eventCount = 0
  /\ readyPromise = "resolved"
  /\ now = videoLoadStartTime + FALLBACK_TIMEOUT
  /\ ~HasKind(timers, "fallback")
  /\ \E i \in DOMAIN timers : timers[i].kind = "reveal" /\ timers[i].at = now

\* A 'play', 'bufferend' or 'timeupdate' event of the player is delivered.
ReadySignalStep == PlayEvent \/ BufferendEvent \/ TimeupdateEvent

\* C17: a timeupdate event schedules a reveal exactly when the listener is
\* subscribed, its playback position is strictly greater than 0.5 s and
\* isVideoReady is false, so a position at or below 0.5 s never schedules one;
\* a play, bufferend or timeupdate event delivered before player.ready() has
\* resolved arms no timer and changes nothing of the gate.
C17_TimeupdateThreshold ==
  [][/\ \A seconds \in TimeupdateSeconds :
          TimeupdateEventAt(seconds)
          => /\ ScheduleStep <=> /\ readyPromise = "resolved"
                                 /\ seconds > TIMEUPDATE_THRESHOLD
                                 /\ ~isVideoReady
             /\ ~ScheduleStep => timers' = timers
     /\ (readyPromise # "resolved" /\ ReadySignalStep)
          => /\ timers' = timers
             /\ UNCHANGED <<nextTimerId, isVideoReady, fallbackTimer, containerClass,
                            guardHits, revealCount, settleCount>>]_vars

\* Events were delivered to a started gate whose ready promise has resolved,
\* none of them an error, and no reveal was scheduled.
C17_Witness ==
  /\ GateStarted
  /\ readyPromise = "resolved"
  /\ eventCount = MaxEvents
  /\ waitingErrorAt = NoTime
  /\ ~HasKind(timers, "forced")
  /\ ~RevealScheduledOrExecuted

\* The visibility of the page has just changed.
VisibilityStep == hidden' # hidden

\* C18: a visibilitychange makes the loader call player.play() only if the
\* page is now visible, a player exists and isVideoReady is true, hence only
\* after a reveal has executed; it makes it call player.pause() whenever the
\* page is now hidden and a player exists; without a player nothing is called.
C18_VisibilityCalls ==
  [][VisibilityStep
       => /\ lastVisibilityCall' = "play"
               => /\ ~hidden'
                  /\ player = "player"
                  /\ isVideoReady
                  /\ revealCount >= 1
          /\ (hidden' /\ player = "player") => lastVisibilityCall' = "pause"
          /\ lastVisibilityCall' = "pause" => hidden' /\ player = "player"
          /\ player = "null" => lastVisibilityCall' = "none"]_vars

\* The page came back to the foreground after the reveal and play() was called.
C18_Witness ==
  /\ lastVisibilityCall = "play"
  /\ ~hidden
  /\ isVideoReady
  /\ visibilityChanges >= 1

\* C19: after any sequence of menu events, nav has 'active' iff the toggle
\* has 'active' iff aria-expanded is 'true' iff #menu-overlay exists iff the
\* body's overflow is 'hidden', and there is at most one #menu-overlay.
C19_MenuConsistent ==
  /\ navActive <=> toggleActive
  /\ navActive <=> ariaExpanded = "true"
  /\ navActive <=> overlays >= 1
  /\ navActive <=> bodyOverflow = "hidden"
  /\ overlays <= 1

\* The menu is open for the second time at least.
C19_Witness ==
  /\ navActive
  /\ overlays = 1
  /\ preOpen.valid
  /\ menuEvents >= 3

\* C20: once the menu that was opened is closed again, the body's overflow
\* and paddingRight, the classes of nav and toggle and the overlay are as
\* the opening found them.
C20_OpenCloseRoundTrip ==
  (preOpen.valid /\ ~navActive)
    => /\ bodyOverflow = preOpen.page.bodyOverflow
       /\ bodyPaddingRight = preOpen.page.bodyPaddingRight
       /\ navActive = preOpen.page.navActive
       /\ toggleActive = preOpen.page.toggleActive
       /\ overlays = preOpen.page.overlays

\* A scroll event is delivered to the listener at an offset lower than that
\* of the previous one.
ScrollUpStep ==
  /\ headerListener
  /\ scrollEvents' = scrollEvents + 1
  /\ pageYOffset' < lastScroll

\* C21: after a scroll event whose offset is lower than that of the previous
\* scroll event, also when it lands at or below the 100 px threshold, the
\* header does not carry 'scroll-down'.
C21_ScrollUpShowsHeader ==
  [][ScrollUpStep => "scroll-down" \notin headerClass']_vars

\* C22: the header never carries both 'scroll-down' and 'scroll-up', and
\* after each scroll event delivered to the listener it carries 'scrolled'
\* exactly when the offset is greater than 50.
C22_HeaderClasses ==
  /\ ~({"scroll-down", "scroll-up"} \subseteq headerClass)
  /\ (headerListener /\ lastScroll = pageYOffset /\ scrollEvents >= 1)
       => ("scrolled" \in headerClass <=> pageYOffset > SCROLLED_OFFSET)

\* The header was hidden, shown again and hidden once more, far down the page.
C22_Witness ==
  /\ headerClass = {"scrolled", "scroll-down"}
  /\ scrollEvents >= 3
  /\ pageYOffset > scrollThreshold

\* The pricing contents that carry 'pricing__content--active'.
ActiveContents == contentActive \cap PricingContents

\* The pricing contents whose data-content is the data-tab of tab i.
ContentsOf(i) == {j \in PricingContents : dataContent[j].content = i}

\* C23 as stated: after any click on a pricing tab exactly that tab is
\* active, and the active pricing contents are one content whose data-content
\* equals the tab's data-tab, or none if no such content exists.
C23_ClickActivatesOne ==
  lastClicked # 0
    => /\ tabActive = {lastClicked}
       /\ Cardinality(ActiveContents) <= 1
       /\ ActiveContents \subseteq ContentsOf(lastClicked)
       /\ ActiveContents = {} <=> ContentsOf(lastClicked) = {}

\* C23 as amended: once initPricingTabs has registered its listeners, after
\* any click on a pricing tab exactly that tab is active, and the active
\* pricing contents are the first element of the document whose data-content
\* equals the tab's data-tab if that element is a pricing content, none
\* otherwise.
C23_ClickActivatesFirstMatch ==
  (pricingListeners /\ lastClicked # 0)
    => /\ tabActive = {lastClicked}
       /\ ActiveContents = {querySelectorContent(lastClicked)} \cap PricingContents

\* A tab was clicked whose content comes after another element with the same
\* data-content: the tab is active and no pricing content is.
C23_Witness ==
  /\ pricingListeners
  /\ lastClicked # 0
  /\ tabActive = {lastClicked}
  /\ ContentsOf(lastClicked) # {}
  /\ ActiveContents = {}

CounterFinished == intervalsStarted >= 1 /\ intervals = <<>>

====
